---- MODULE Spec2Model ----
(***************************************************************************)
(* A model of gemilot.py: the request -> model reply -> sanitize -> run    *)
(* pipeline of the terminal shell (GemilotCLI) and of the panel shell      *)
(* (GemilotGUI with its GeminiWorker threads).                             *)
(*                                                                         *)
(* Text is a sequence of characters.  A character is a one-character       *)
(* string, except the characters a TLA+ string cannot hold, which are      *)
(* named: LF is '\n', CR is '\r', TAB is '\t', BQ is the backquote.        *)
(***************************************************************************)
EXTENDS Naturals, Sequences, FiniteSets, TLC

\* ------------------------------------------------------------------ bounds

\* Lines of a raw text handed to the sanitizer.
MaxLines == 4

\* Script Runner calls made when the Script Runner is exercised on its own.
MaxCalls == 3

\* Inputs read by the terminal shell's loop.
MaxTurns == 2

\* Requests submitted to the panel shell.
MaxRequests == 2

\* ------------------------------------------------------------------- text

LF == "LF"

CR == "CR"

TAB == "TAB"

SP == " "

BQ == "BQ"

\* The characters str.strip() removes.
Whitespace == {SP, LF, CR, TAB}

\* The code-fence marker, three backquotes.
Fence == <<BQ, BQ, BQ>>

\* The refusal prefix tested by response.startswith("ERROR:").
ErrorPrefix == <<"E", "R", "R", "O", "R", ":">>

RECURSIVE LStrip(_)
LStrip(s) ==
  IF s # <<>> /\ Head(s) \in Whitespace THEN LStrip(Tail(s)) ELSE s

RECURSIVE RStrip(_)
RStrip(s) ==
  IF s # <<>> /\ s[Len(s)] \in Whitespace
    THEN RStrip(SubSeq(s, 1, Len(s) - 1))
    ELSE s

\* str.strip()
Strip(s) == RStrip(LStrip(s))

\* str.startswith(p)
StartsWith(s, p) == Len(s) >= Len(p) /\ SubSeq(s, 1, Len(p)) = p

\* s[n:]
Slice(s, n) == SubSeq(s, n + 1, Len(s))

\* str.split(c) for a one-character separator: "" splits to [""].
RECURSIVE Split(_, _)
Split(s, c) ==
  IF \E i \in 1..Len(s) : s[i] = c
    THEN LET i == CHOOSE k \in 1..Len(s) :
                    s[k] = c /\ \A j \in 1..(k - 1) : s[j] # c
         IN  <<SubSeq(s, 1, i - 1)>> \o Split(SubSeq(s, i + 1, Len(s)), c)
    ELSE <<s>>

\* sep.join(parts)
RECURSIVE Join(_, _)
Join(parts, sep) ==
  IF parts = <<>> THEN <<>>
  ELSE IF Len(parts) = 1 THEN parts[1]
  ELSE parts[1] \o sep \o Join(Tail(parts), sep)

\* -------------------------------------------------------------- sanitizer

\* A slip in the opening-fence test: the first line must be the bare marker.
clean_bare_fence_only(response) ==
  LET lines0 == Split(Strip(response), LF)
      lines1 == IF Len(lines0) >= 2 /\ lines0[1] = Fence
                  THEN Tail(lines0) ELSE lines0
      lines2 == IF Len(lines0) >= 2 /\ Strip(lines1[Len(lines1)]) = Fence
                  THEN SubSeq(lines1, 1, Len(lines1) - 1) ELSE lines1
  IN  Join(lines2, <<LF>>)

\* A slip in the fence tests: the len(lines) >= 2 guard is left out.
clean_no_len_guard(response) ==
  LET lines0 == Split(Strip(response), LF)
      lines1 == IF StartsWith(lines0[1], Fence) THEN Tail(lines0) ELSE lines0
      lines2 == IF lines1 # <<>> /\ Strip(lines1[Len(lines1)]) = Fence
                  THEN SubSeq(lines1, 1, Len(lines1) - 1) ELSE lines1
  IN  Join(lines2, <<LF>>)

\* A slip in line 451: blank lines are left out of the joined text.
clean_drops_blank_lines(response) ==
  LET lines0 == Split(Strip(response), LF)
      lines1 == IF Len(lines0) >= 2 /\ StartsWith(lines0[1], Fence)
                  THEN Tail(lines0) ELSE lines0
      lines2 == IF Len(lines0) >= 2 /\ Strip(lines1[Len(lines1)]) = Fence
                  THEN SubSeq(lines1, 1, Len(lines1) - 1) ELSE lines1
  IN  Join(SelectSeq(lines2, LAMBDA l : Strip(l) # <<>>), <<LF>>)

\* GemilotGUI.clean_gemini_response
clean_gemini_response(response) ==
  LET lines0 == Split(Strip(response), LF)
      lines1 == IF Len(lines0) >= 2 /\ StartsWith(lines0[1], Fence)
                  THEN Tail(lines0) ELSE lines0
      lines2 == IF Len(lines0) >= 2 /\ Strip(lines1[Len(lines1)]) = Fence
                  THEN SubSeq(lines1, 1, Len(lines1) - 1) ELSE lines1
  IN  Join(lines2, <<LF>>)

\* --------------------------------------------------------------- variables

VARIABLES
  raw,          \* sanitizer check: the raw text
  cleaned,      \* sanitizer check: clean_gemini_response(raw)
  recleaned,    \* sanitizer check: clean_gemini_response(cleaned)
  sanPc,        \* sanitizer check: "input", "cleaned", "recleaned"
  fileExists,   \* disk: temp_commands.bat exists
  fileContent,  \* disk: its content
  runPc,        \* Script Runner: the position of the running call, or how the last one ended
  runContent,   \* Script Runner: batch_content
  runStderr,    \* Script Runner: stderr captured by communicate()
  runCode,      \* Script Runner: exit code of the interpreter process
  runExc,       \* Script Runner: str(e) of the exception caught or raised
  runReq,       \* Script Runner: the request the running call serves
  wroteFor,     \* history: requests for which the script file was opened for writing
  startedFor,   \* history: requests for which the command interpreter was started
  lastScript,   \* Script Runner call: content of the file its interpreter was started on
  calls,        \* Script Runner on its own: calls made
  mode,         \* main(): "cli" or "gui"; "unit" when a component is exercised on its own
  cliPc,        \* terminal shell: position of GemilotCLI.run
  user_input,   \* terminal shell: the stripped input of the turn
  command_history, \* terminal shell: self.command_history
  turns,        \* terminal shell: inputs read so far; the turn's request id
  retry,        \* get_gemini_response: the loop variable
  attempts,     \* get_gemini_response: model calls submitted in this turn
  failures,     \* history: attempts of this turn that ended in an exception
  timeouts,     \* history: attempts of this turn that ended in the timeout
  lastTry,      \* history: how the last finished attempt ended, and its text
  sleeps,       \* get_gemini_response: time.sleep(retry_delay) calls in this turn
  call,         \* the model call in the executor thread: "none", "running", "hung", "ok", "err"
  callVal,      \* its reply text or its error description
  exc,          \* the exception in flight
  response,     \* the reply get_gemini_response returned
  cliOut,       \* terminal shell: what the turn printed, in order
  submitted,    \* panel shell: non-blank inputs process_command has taken
  workers,      \* panel shell: the GeminiWorker threads started, in order
  events,       \* panel shell: signals queued for the main thread, in order
  stack         \* panel shell: the handlers running on the main thread, innermost
                \* last, each with the message bubbles it has added so far

sanVars == <<raw, cleaned, recleaned, sanPc>>

diskVars == <<fileExists, fileContent>>

runVars == <<runPc, runContent, runStderr, runCode, runExc, runReq>>

histVars == <<wroteFor, startedFor, lastScript>>

cliVars ==
  <<cliPc, user_input, command_history, turns, retry, attempts, failures, timeouts, lastTry, sleeps,
    call, callVal, exc, response, cliOut>>

guiVars == <<submitted, workers, events, stack>>

vars == <<sanVars, diskVars, runVars, histVars, calls, mode, cliVars, guiVars>>

\* ------------------------------------------------------------ Script Runner

EchoOff == <<"@", "e", "c", "h", "o", " ", "o", "f", "f">>

CRLF == <<CR, LF>>

\* The content no script has: the interpreter was started with the file absent.
NoFile == <<"(no file)">>

\* What a text-mode file opened with newline='\r\n' stores for a written string:
\* every '\n' becomes '\r\n'.
RECURSIVE TranslateNewlines(_)
TranslateNewlines(s) ==
  IF s = <<>> THEN <<>>
  ELSE (IF Head(s) = LF THEN CRLF ELSE <<Head(s)>>) \o TranslateNewlines(Tail(s))

\* [cmd.strip() for cmd in commands if cmd.strip()]
RECURSIVE FilterCommands(_)
FilterCommands(commands) ==
  IF commands = <<>> THEN <<>>
  ELSE (IF Strip(Head(commands)) # <<>> THEN <<Strip(Head(commands))>> ELSE <<>>)
         \o FilterCommands(Tail(commands))

\* batch_content of execute_commands and create_batch_file
BatchContent(commands) ==
  EchoOff \o CRLF \o Join(FilterCommands(commands), CRLF)

\* What the interpreter may write to standard error.
StderrTexts == {<<>>, <<"x">>}

\* The exit codes the interpreter may end with.
ExitCodes == {0, 1}

\* with open("temp_commands.bat", "w", ...) as f: f.write(batch_content).
\* It stores the content, or fails having created (and emptied) the file or not.
WriteFile(ok, created) ==
  /\ wroteFor' = wroteFor \cup {runReq}
  /\ IF ok
       THEN fileExists' = TRUE /\ fileContent' = TranslateNewlines(runContent)
       ELSE IF created
         THEN fileExists' = TRUE /\ fileContent' = <<>>
         ELSE UNCHANGED diskVars

\* subprocess.Popen(["cmd.exe", "/c", "temp_commands.bat"], ...)
StartInterpreter ==
  /\ startedFor' = startedFor \cup {runReq}
  /\ lastScript' = IF fileExists THEN fileContent ELSE NoFile

\* process.communicate(): the script has run; it may have deleted its own file.
Communicate(err, selfDelete, code) ==
  /\ runStderr' = err
  /\ runCode' = code
  /\ fileExists' = (fileExists /\ ~selfDelete)
  /\ fileContent' = IF fileExists /\ ~selfDelete THEN fileContent ELSE <<>>

\* if os.path.exists("temp_commands.bat"): os.remove("temp_commands.bat")
RemoveTempFile == fileExists' = FALSE /\ fileContent' = <<>>

\* A slip in the cleanup: the file is kept.
KeepTempFile == UNCHANGED diskVars

\* The cleanup of the except handlers (lines 486-487 and 564-565).
RemoveTempFileInHandler == RemoveTempFile

\* GemilotGUI.execute_commands, entered with the commands of request req.
execute_commands_call(commands, req) ==
  /\ runPc' = "ec_write"
  /\ runContent' = BatchContent(commands)
  /\ runStderr' = <<>>
  /\ runCode' = 0
  /\ runExc' = <<>>
  /\ runReq' = req

EC_Write ==
  /\ runPc = "ec_write"
  /\ \/ /\ WriteFile(TRUE, TRUE)
        /\ runPc' = "ec_popen"
        /\ UNCHANGED runExc
     \/ /\ \E created \in BOOLEAN : WriteFile(FALSE, created)
        /\ runPc' = "ec_except"
        /\ runExc' = <<"[Errno 13] Permission denied: 'temp_commands.bat'">>
  /\ UNCHANGED <<sanVars, runContent, runStderr, runCode, runReq, startedFor, lastScript, calls, mode, cliVars, guiVars>>

EC_Popen ==
  /\ runPc = "ec_popen"
  /\ \/ /\ StartInterpreter
        /\ runPc' = "ec_communicate"
        /\ UNCHANGED runExc
     \/ /\ runPc' = "ec_except"
        /\ runExc' = <<"[WinError 2] The system cannot find the file specified">>
        /\ UNCHANGED <<startedFor, lastScript>>
  /\ UNCHANGED <<sanVars, diskVars, runContent, runStderr, runCode, runReq, wroteFor, calls, mode, cliVars, guiVars>>

EC_Communicate ==
  /\ runPc = "ec_communicate"
  /\ \E err \in StderrTexts, selfDelete \in BOOLEAN, code \in ExitCodes :
       Communicate(err, selfDelete, code)
  /\ runPc' = "ec_cleanup"
  /\ UNCHANGED <<sanVars, runContent, runExc, runReq, histVars, calls, mode, cliVars, guiVars>>

\* A slip in line 482: a non-zero exit code is taken for a failure too.
EC_Cleanup_checks_code ==
  /\ runPc = "ec_cleanup"
  /\ RemoveTempFile
  /\ IF runStderr # <<>> \/ runCode # 0
       THEN runPc' = "ec_except" /\ runExc' = runStderr
       ELSE runPc' = "ec_returned" /\ UNCHANGED runExc
  /\ UNCHANGED <<sanVars, runContent, runStderr, runCode, runReq, histVars, calls, mode, cliVars, guiVars>>

\* Lines 478-483: remove the file, then raise Exception(stderr) inside the try.
EC_Cleanup ==
  /\ runPc = "ec_cleanup"
  /\ RemoveTempFile
  /\ IF runStderr # <<>>
       THEN runPc' = "ec_except" /\ runExc' = runStderr
       ELSE runPc' = "ec_returned" /\ UNCHANGED runExc
  /\ UNCHANGED <<sanVars, runContent, runStderr, runCode, runReq, histVars, calls, mode, cliVars, guiVars>>

\* Lines 485-488: remove the file, raise Exception(str(e)).
EC_Except ==
  /\ runPc = "ec_except"
  /\ RemoveTempFileInHandler
  /\ runPc' = "ec_raised"
  /\ UNCHANGED <<sanVars, runContent, runStderr, runCode, runExc, runReq, histVars, calls, mode, cliVars, guiVars>>

\* GemilotCLI.create_batch_file, entered with the commands of request req.
create_batch_file_call(commands, req) ==
  /\ runPc' = "cb_write"
  /\ runContent' = BatchContent(commands)
  /\ runStderr' = <<>>
  /\ runCode' = 0
  /\ runExc' = <<>>
  /\ runReq' = req

\* Lines 525-530: a failed write raises "Error creating batch file: ..." and
\* leaves whatever open() created.
CB_Write ==
  /\ runPc = "cb_write"
  /\ \/ /\ WriteFile(TRUE, TRUE)
        /\ runPc' = "cb_returned"
        /\ UNCHANGED runExc
     \/ /\ \E created \in BOOLEAN : WriteFile(FALSE, created)
        /\ runPc' = "cb_raised"
        /\ runExc' = <<"Error creating batch file: ",
                       "[Errno 13] Permission denied: 'temp_commands.bat'">>
  /\ UNCHANGED <<sanVars, runContent, runStderr, runCode, runReq, startedFor, lastScript, calls, mode, cliVars, guiVars>>

\* GemilotCLI.execute_batch_file
execute_batch_file_call ==
  /\ runPc' = "eb_popen"
  /\ UNCHANGED <<runContent, runStderr, runCode, runExc, runReq>>

EB_Popen ==
  /\ runPc = "eb_popen"
  /\ \/ /\ StartInterpreter
        /\ runPc' = "eb_communicate"
        /\ UNCHANGED runExc
     \/ /\ runPc' = "eb_except"
        /\ runExc' = <<"[WinError 2] The system cannot find the file specified">>
        /\ UNCHANGED <<startedFor, lastScript>>
  /\ UNCHANGED <<sanVars, diskVars, runContent, runStderr, runCode, runReq, wroteFor, calls, mode, cliVars, guiVars>>

EB_Communicate ==
  /\ runPc = "eb_communicate"
  /\ \E err \in StderrTexts, selfDelete \in BOOLEAN, code \in ExitCodes :
       Communicate(err, selfDelete, code)
  /\ runPc' = "eb_cleanup"
  /\ UNCHANGED <<sanVars, runContent, runExc, runReq, histVars, calls, mode, cliVars, guiVars>>

\* Lines 554-561
EB_Cleanup ==
  /\ runPc = "eb_cleanup"
  /\ RemoveTempFile
  /\ IF runStderr # <<>>
       THEN runPc' = "eb_except" /\ runExc' = runStderr
       ELSE runPc' = "eb_returned" /\ UNCHANGED runExc
  /\ UNCHANGED <<sanVars, runContent, runStderr, runCode, runReq, histVars, calls, mode, cliVars, guiVars>>

\* Lines 563-566
EB_Except ==
  /\ runPc = "eb_except"
  /\ RemoveTempFileInHandler
  /\ runPc' = "eb_raised"
  /\ runExc' = <<"Error executing batch file: ">> \o runExc
  /\ UNCHANGED <<sanVars, runContent, runStderr, runCode, runReq, histVars, calls, mode, cliVars, guiVars>>

\* No Script Runner call is running.
RunnerAtRest ==
  runPc \in {"idle", "ec_returned", "ec_raised", "cb_raised", "eb_returned", "eb_raised"}

RunnerInit ==
  /\ fileExists = FALSE
  /\ fileContent = <<>>
  /\ runPc = "idle"
  /\ runContent = <<>>
  /\ runStderr = <<>>
  /\ runCode = 0
  /\ runExc = <<>>
  /\ runReq = 0
  /\ wroteFor = {}
  /\ startedFor = {}
  /\ lastScript = <<>>
  /\ calls = 0

NoExc == [type |-> "none", msg |-> <<>>]

NoTry == [res |-> "none", text |-> <<>>]

CliIdle ==
  /\ cliPc = "off"
  /\ user_input = <<>>
  /\ command_history = <<>>
  /\ turns = 0
  /\ retry = 0
  /\ attempts = 0
  /\ failures = 0
  /\ timeouts = 0
  /\ lastTry = NoTry
  /\ sleeps = 0
  /\ call = "none"
  /\ callVal = <<>>
  /\ exc = NoExc
  /\ response = <<>>
  /\ cliOut = <<>>

SanIdle ==
  /\ raw = <<>>
  /\ cleaned = <<>>
  /\ recleaned = <<>>
  /\ sanPc = "off"

\* ------------------------------------------------------------ Model replies

\* The model replies that are not refusals.
PlainReply == <<"m", "d", " ", "a">>

FencedReply ==
  Fence \o <<"b", "a", "t", LF, SP, "m", "d", " ", "a", CR, LF, LF, "d", "i", "r", LF>>
        \o Fence \o <<LF>>

ScriptReplies == { PlainReply, FencedReply }

\* Refusals: a plain one and one inside a code fence.
RefusalText == ErrorPrefix \o <<" ", "n", "o">>

RefusalReplies ==
  { RefusalText,
    Fence \o <<LF>> \o RefusalText \o <<LF>> \o Fence }

ModelReplies == ScriptReplies \cup RefusalReplies

\* Descriptions of the errors a model call raises.
ModelErrors == { <<"503 UNAVAILABLE">>, <<"429 RESOURCE_EXHAUSTED">> }

\* The command lines a shell derives from a reply: cleaned_response.split('\n').
CommandsOf(reply) == Split(clean_gemini_response(reply), LF)

\* ----------------------------------------------------------- terminal shell

UpperLetters ==
  <<"A", "B", "C", "D", "E", "F", "G", "H", "I", "J", "K", "L", "M",
    "N", "O", "P", "Q", "R", "S", "T", "U", "V", "W", "X", "Y", "Z">>

LowerLetters ==
  <<"a", "b", "c", "d", "e", "f", "g", "h", "i", "j", "k", "l", "m",
    "n", "o", "p", "q", "r", "s", "t", "u", "v", "w", "x", "y", "z">>

LowerChar(c) ==
  IF \E i \in 1..26 : UpperLetters[i] = c
    THEN LowerLetters[CHOOSE i \in 1..26 : UpperLetters[i] = c]
    ELSE c

\* str.lower()
Lower(s) == [i \in 1..Len(s) |-> LowerChar(s[i])]

\* str(n) for the small numbers printed
NumStr(n) == <<"0", "1", "2", "3", "4", "5", "6", "7", "8", "9">>[n + 1]

TxtExit == <<"e", "x", "i", "t">>

TxtHelp == <<"h", "e", "l", "p">>

TxtHistory == <<"h", "i", "s", "t", "o", "r", "y">>

TxtLocal == <<"l", "o", "c", "a", "l", ":">>

\* What the user may type at the prompt.
Inputs ==
  { TxtExit,
    <<SP, "E", "x", "i", "t">>,
    TxtHelp,
    TxtHistory,
    TxtLocal \o <<" ", "m", "d", " ", "a">>,
    <<"L", "o", "c", "a", "l", ":", "d", "i", "r", " ">>,
    <<SP>>,
    <<"n", "e", "w", " ", "a">>,
    <<"l", "s">> }

\* max_retries of get_gemini_response
cli_max_retries == 3

\* retry_delay of get_gemini_response, in seconds
cli_retry_delay == 2

TimeoutError(msg) == [type |-> "TimeoutError", msg |-> msg]

Exception(msg) == [type |-> "Exception", msg |-> msg]

AttributeError(attr) ==
  [type |-> "AttributeError",
   msg |-> <<"'GemilotCLI' object has no attribute '", attr, "'">>]

Printed(kind, text) == [k |-> kind, text |-> text]

\* offer_fallback(): the nine lines of the local-fallback offer.
offer_fallback == Printed("fallback", <<>>)

\* A slip in lines 717 and 720: the fallback offer is left out.
run_inner_except_no_offer(e) ==
  IF e.type = "TimeoutError"
    THEN <<Printed("timeout_error", <<"Timeout Error: ">> \o e.msg)>>
    ELSE <<Printed("error", <<"Error: ">> \o e.msg)>>

\* The two except clauses of the inner try of run, lines 715-720.
run_inner_except(e) ==
  IF e.type = "TimeoutError"
    THEN <<Printed("timeout_error", <<"Timeout Error: ">> \o e.msg), offer_fallback>>
    ELSE <<Printed("error", <<"Error: ">> \o e.msg), offer_fallback>>

\* The except clause of the outer try of run, lines 722-723.
run_outer_except(e) == <<Printed("outer_error", <<"An error occurred: ">> \o e.msg)>>

\* show_history()
show_history(h) ==
  IF h = <<>>
    THEN Printed("history", <<"No commands in history yet.">>)
    ELSE Printed("history",
                 Join([i \in 1..Len(h) |-> <<NumStr(i), ".", " ">> \o h[i]], <<LF>>))

IsExit(u) == Lower(u) = TxtExit

IsHelp(u) == Lower(u) = TxtHelp

IsHistory(u) == Lower(u) = TxtHistory

IsLocal(u) == StartsWith(Lower(u), TxtLocal)

\* Prompt.ask(...).strip() starts a turn: what the last turn left is dropped.
ReadInput(inp) ==
  /\ mode = "cli"
  /\ cliPc = "ask"
  /\ turns < MaxTurns
  /\ turns' = turns + 1
  /\ user_input' = Strip(inp)
  /\ retry' = 0
  /\ attempts' = 0
  /\ failures' = 0
  /\ timeouts' = 0
  /\ lastTry' = NoTry
  /\ sleeps' = 0
  /\ call' = "none"
  /\ callVal' = <<>>
  /\ exc' = NoExc
  /\ response' = <<>>

\* Line 667 when Prompt.ask raises (EOFError at the end of standard input):
\* nothing is assigned to user_input, and the outer try of run (lines 722-723)
\* reports the exception and goes round the loop.
CLI_ReadFails ==
  /\ mode = "cli"
  /\ cliPc = "ask"
  /\ turns < MaxTurns
  /\ turns' = turns + 1
  /\ retry' = 0
  /\ attempts' = 0
  /\ failures' = 0
  /\ timeouts' = 0
  /\ lastTry' = NoTry
  /\ sleeps' = 0
  /\ call' = "none"
  /\ callVal' = <<>>
  /\ response' = <<>>
  /\ exc' = [type |-> "EOFError", msg |-> <<"EOF when reading a line">>]
  /\ cliOut' = run_outer_except([type |-> "EOFError", msg |-> <<"EOF when reading a line">>])
  /\ UNCHANGED <<sanVars, diskVars, runVars, histVars, calls, mode, guiVars, cliPc,
                 user_input, command_history>>

\* Lines 669-671
CLI_Exit ==
  /\ \E inp \in Inputs : ReadInput(inp) /\ IsExit(Strip(inp))
  /\ cliOut' = <<Printed("goodbye", <<>>)>>
  /\ cliPc' = "exited"
  /\ UNCHANGED <<sanVars, diskVars, runVars, histVars, calls, mode, command_history, guiVars>>

\* Lines 672-674
CLI_Help ==
  /\ \E inp \in Inputs : ReadInput(inp) /\ ~IsExit(Strip(inp)) /\ IsHelp(Strip(inp))
  /\ cliOut' = <<Printed("help", <<>>)>>
  /\ cliPc' = "ask"
  /\ UNCHANGED <<sanVars, diskVars, runVars, histVars, calls, mode, command_history, guiVars>>

\* Lines 675-677
CLI_History ==
  /\ \E inp \in Inputs :
       ReadInput(inp) /\ ~IsExit(Strip(inp)) /\ ~IsHelp(Strip(inp)) /\ IsHistory(Strip(inp))
  /\ cliOut' = <<show_history(command_history)>>
  /\ cliPc' = "ask"
  /\ UNCHANGED <<sanVars, diskVars, runVars, histVars, calls, mode, command_history, guiVars>>

\* Lines 678-681 and 727-730: execute_local_command(user_input[6:].strip())
\* is entered and batch_content composed.
CLI_Local ==
  /\ \E inp \in Inputs :
       /\ ReadInput(inp)
       /\ ~IsExit(Strip(inp)) /\ ~IsHelp(Strip(inp)) /\ ~IsHistory(Strip(inp))
       /\ IsLocal(Strip(inp))
       /\ runContent' = EchoOff \o CRLF \o Strip(Strip(Slice(Strip(inp), 6)))
  /\ runReq' = turns + 1
  /\ runStderr' = <<>>
  /\ runCode' = 0
  /\ runExc' = <<>>
  /\ cliOut' = <<>>
  /\ cliPc' = "lc_write"
  /\ UNCHANGED <<sanVars, diskVars, runPc, histVars, calls, mode, command_history, guiVars>>

\* A slip in line 685: an input already in the history is not added again.
CLI_Request_skips_repeats ==
  /\ \E inp \in Inputs :
       /\ ReadInput(inp)
       /\ ~IsExit(Strip(inp)) /\ ~IsHelp(Strip(inp)) /\ ~IsHistory(Strip(inp))
       /\ ~IsLocal(Strip(inp))
       /\ command_history' =
            IF \E i \in 1..Len(command_history) : command_history[i] = Strip(inp)
              THEN command_history
              ELSE Append(command_history, Strip(inp))
  /\ cliOut' = <<>>
  /\ cliPc' = "submit"
  /\ UNCHANGED <<sanVars, diskVars, runVars, histVars, calls, mode, guiVars>>

\* Lines 684-696: the input is added to the history, the prompt is built and
\* get_gemini_response(prompt) is entered.
CLI_Request ==
  /\ \E inp \in Inputs :
       /\ ReadInput(inp)
       /\ ~IsExit(Strip(inp)) /\ ~IsHelp(Strip(inp)) /\ ~IsHistory(Strip(inp))
       /\ ~IsLocal(Strip(inp))
       /\ command_history' = Append(command_history, Strip(inp))
  /\ cliOut' = <<>>
  /\ cliPc' = "submit"
  /\ UNCHANGED <<sanVars, diskVars, runVars, histVars, calls, mode, guiVars>>

\* Lines 575-584: executor.submit(generate).  The call it starts returns,
\* raises, or never completes.
GGR_Submit ==
  /\ mode = "cli"
  /\ cliPc = "submit"
  /\ attempts' = attempts + 1
  /\ call' \in {"running", "hung"}
  /\ callVal' = <<>>
  /\ cliPc' = "await"
  /\ UNCHANGED <<sanVars, diskVars, runVars, histVars, calls, mode, guiVars, user_input,
                 command_history, turns, retry, failures, timeouts, lastTry, sleeps, exc, response, cliOut>>

\* The executor thread: model.generate_content(prompt) returns and
\* response.text is the reply.
GGR_CallReturns ==
  /\ mode = "cli"
  /\ call = "running"
  /\ call' = "ok"
  /\ callVal' \in ModelReplies
  /\ UNCHANGED <<sanVars, diskVars, runVars, histVars, calls, mode, guiVars, cliPc, user_input,
                 command_history, turns, retry, attempts, failures, timeouts, lastTry, sleeps, exc,
                 response, cliOut>>

\* The executor thread: the call raises.
GGR_CallRaises ==
  /\ mode = "cli"
  /\ call = "running"
  /\ call' = "err"
  /\ callVal' \in ModelErrors
  /\ UNCHANGED <<sanVars, diskVars, runVars, histVars, calls, mode, guiVars, cliPc, user_input,
                 command_history, turns, retry, attempts, failures, timeouts, lastTry, sleeps, exc,
                 response, cliOut>>

\* A slip in line 580: the reply is trimmed before it is returned.
GGR_Result_stripped ==
  /\ mode = "cli"
  /\ cliPc = "await"
  /\ call \in {"ok", "err"}
  /\ IF call = "ok"
       THEN /\ response' = Strip(callVal)
            /\ lastTry' = [res |-> "ok", text |-> callVal]
            /\ cliPc' = "respond"
            /\ UNCHANGED <<exc, failures>>
       ELSE /\ exc' = Exception(<<"Error getting response from Gemini: ">> \o callVal)
            /\ lastTry' = [res |-> "error", text |-> callVal]
            /\ failures' = failures + 1
            /\ cliPc' = "failed"
            /\ UNCHANGED response
  /\ UNCHANGED <<sanVars, diskVars, runVars, histVars, calls, mode, guiVars, user_input,
                 command_history, turns, retry, attempts, timeouts, sleeps, call, callVal, cliOut>>

\* Lines 586-587 and 590-591: future.result(timeout=30) delivers the call's
\* outcome.  The executor's thread has ended, so leaving the with block does
\* not wait.
GGR_Result ==
  /\ mode = "cli"
  /\ cliPc = "await"
  /\ call \in {"ok", "err"}
  /\ IF call = "ok"
       THEN /\ response' = callVal
            /\ lastTry' = [res |-> "ok", text |-> callVal]
            /\ cliPc' = "respond"
            /\ UNCHANGED <<exc, failures>>
       ELSE /\ exc' = Exception(<<"Error getting response from Gemini: ">> \o callVal)
            /\ lastTry' = [res |-> "error", text |-> callVal]
            /\ failures' = failures + 1
            /\ cliPc' = "failed"
            /\ UNCHANGED response
  /\ UNCHANGED <<sanVars, diskVars, runVars, histVars, calls, mode, guiVars, user_input,
                 command_history, turns, retry, attempts, timeouts, sleeps, call, callVal, cliOut>>

TimeoutMsg == <<"The request took too long to complete. Please try again.">>

\* Lines 588-589: 30 seconds passed with the call unfinished; TimeoutError is
\* raised inside the with block, whose exit is executor.shutdown(wait=True).
GGR_Timeout ==
  /\ mode = "cli"
  /\ cliPc = "await"
  /\ call \in {"running", "hung"}
  /\ exc' = TimeoutError(TimeoutMsg)
  /\ lastTry' = [res |-> "timeout", text |-> TimeoutMsg]
  /\ failures' = failures + 1
  /\ timeouts' = timeouts + 1
  /\ cliPc' = "shutdown"
  /\ UNCHANGED <<sanVars, diskVars, runVars, histVars, calls, mode, guiVars, user_input,
                 command_history, turns, retry, attempts, sleeps, call, callVal,
                 response, cliOut>>

\* Line 583, leaving the with block: shutdown(wait=True) returns when the
\* executor's thread has ended, and the TimeoutError goes on to line 593.
GGR_ShutdownJoined ==
  /\ mode = "cli"
  /\ cliPc = "shutdown"
  /\ call \in {"ok", "err"}
  /\ cliPc' = "failed"
  /\ UNCHANGED <<sanVars, diskVars, runVars, histVars, calls, mode, guiVars, user_input,
                 command_history, turns, retry, attempts, failures, timeouts, lastTry, sleeps, call,
                 callVal, exc, response, cliOut>>

\* The exception get_gemini_response raises when the last attempt failed, line 598.
\* It is an Exception whatever the type of e.
exhausted_exception(e) ==
  Exception(<<"Failed to get response after ", NumStr(cli_max_retries), " attempts: ">>
              \o e.msg)

\* A slip in lines 594-598: the delay is also taken after the last failure.
GGR_Except_delays_last ==
  /\ mode = "cli"
  /\ cliPc = "failed"
  /\ IF retry < cli_max_retries - 1
       THEN /\ cliOut' = Append(cliOut,
                 Printed("retry_notice",
                   <<"Connection error, retrying in ", NumStr(cli_retry_delay),
                     " seconds... (Attempt ", NumStr(retry + 1), "/",
                     NumStr(cli_max_retries), ")">>))
            /\ cliPc' = "sleep"
            /\ UNCHANGED <<exc, sleeps>>
       ELSE /\ exc' = exhausted_exception(exc)
            /\ cliOut' = cliOut \o run_inner_except(exhausted_exception(exc))
            /\ cliPc' = "ask"
            /\ sleeps' = sleeps + 1
  /\ UNCHANGED <<sanVars, diskVars, runVars, histVars, calls, mode, guiVars, user_input,
                 command_history, turns, retry, attempts, failures, timeouts, lastTry, call,
                 callVal, response>>

\* Lines 593-598: the except clause of the retry loop.  The exception raised
\* by line 598 is handled by the inner try of run.
GGR_Except ==
  /\ mode = "cli"
  /\ cliPc = "failed"
  /\ IF retry < cli_max_retries - 1
       THEN /\ cliOut' = Append(cliOut,
                 Printed("retry_notice",
                   <<"Connection error, retrying in ", NumStr(cli_retry_delay),
                     " seconds... (Attempt ", NumStr(retry + 1), "/",
                     NumStr(cli_max_retries), ")">>))
            /\ cliPc' = "sleep"
            /\ UNCHANGED exc
       ELSE /\ exc' = exhausted_exception(exc)
            /\ cliOut' = cliOut \o run_inner_except(exhausted_exception(exc))
            /\ cliPc' = "ask"
  /\ UNCHANGED <<sanVars, diskVars, runVars, histVars, calls, mode, guiVars, user_input,
                 command_history, turns, retry, attempts, failures, timeouts, lastTry, sleeps, call,
                 callVal, response>>

\* Line 596, time.sleep(retry_delay), and the next round of the for loop.
GGR_Sleep ==
  /\ mode = "cli"
  /\ cliPc = "sleep"
  /\ sleeps' = sleeps + 1
  /\ retry' = retry + 1
  /\ cliPc' = "submit"
  /\ UNCHANGED <<sanVars, diskVars, runVars, histVars, calls, mode, guiVars, user_input,
                 command_history, turns, attempts, failures, timeouts, lastTry, call, callVal, exc,
                 response, cliOut>>

\* Lines 698-704 and 718-720.  A refusal is printed without its prefix.  For any
\* other reply line 704 calls self.clean_gemini_response, which GemilotCLI does
\* not define: the AttributeError is handled by the inner try, and lines 707-713
\* (preview, create_batch_file, execute_batch_file) are not reached.
CLI_Respond ==
  /\ mode = "cli"
  /\ cliPc = "respond"
  /\ IF StartsWith(response, ErrorPrefix)
       THEN /\ cliOut' = cliOut \o
                 <<Printed("error", <<"Error: ">> \o Slice(response, 6)), offer_fallback>>
            /\ UNCHANGED exc
       ELSE /\ exc' = AttributeError("clean_gemini_response")
            /\ cliOut' = cliOut \o run_inner_except(AttributeError("clean_gemini_response"))
  /\ cliPc' = "ask"
  /\ UNCHANGED <<sanVars, diskVars, runVars, histVars, calls, mode, guiVars, user_input,
                 command_history, turns, retry, attempts, failures, timeouts, lastTry, sleeps, call,
                 callVal, response>>

\* Lines 732-733 of execute_local_command: the script file is written.
LC_Write ==
  /\ mode = "cli"
  /\ cliPc = "lc_write"
  /\ \/ /\ WriteFile(TRUE, TRUE)
        /\ cliPc' = "lc_report"
        /\ UNCHANGED exc
     \/ /\ \E created \in BOOLEAN : WriteFile(FALSE, created)
        /\ cliPc' = "lc_except"
        /\ exc' = [type |-> "PermissionError",
                   msg |-> <<"[Errno 13] Permission denied: 'temp_commands.bat'">>]
  /\ UNCHANGED <<sanVars, runVars, startedFor, lastScript, calls, mode, guiVars, user_input,
                 command_history, turns, retry, attempts, failures, timeouts, lastTry, sleeps, call,
                 callVal, response, cliOut>>

\* Line 736: self.output_area, which GemilotCLI does not define.  Lines 738-763
\* (Popen, communicate, the removal of the file) are not reached.
LC_Report ==
  /\ mode = "cli"
  /\ cliPc = "lc_report"
  /\ exc' = AttributeError("output_area")
  /\ cliPc' = "lc_except"
  /\ UNCHANGED <<sanVars, diskVars, runVars, histVars, calls, mode, guiVars, user_input,
                 command_history, turns, retry, attempts, failures, timeouts, lastTry, sleeps, call,
                 callVal, response, cliOut>>

\* A slip in line 722: the exception raised by the handler of
\* execute_local_command is not caught and ends run.
LC_Except_uncaught ==
  /\ mode = "cli"
  /\ cliPc = "lc_except"
  /\ exc' = AttributeError("output_area")
  /\ cliPc' = "exited"
  /\ UNCHANGED <<sanVars, diskVars, runVars, histVars, calls, mode, guiVars, user_input,
                 command_history, turns, retry, attempts, failures, timeouts, lastTry, sleeps, call,
                 callVal, response, cliOut>>

\* Lines 765-766: the handler's own self.output_area raises AttributeError,
\* which leaves execute_local_command and is handled by the outer try of run.
LC_Except ==
  /\ mode = "cli"
  /\ cliPc = "lc_except"
  /\ exc' = AttributeError("output_area")
  /\ cliOut' = cliOut \o run_outer_except(AttributeError("output_area"))
  /\ cliPc' = "ask"
  /\ UNCHANGED <<sanVars, diskVars, runVars, histVars, calls, mode, guiVars, user_input,
                 command_history, turns, retry, attempts, failures, timeouts, lastTry, sleeps, call,
                 callVal, response>>

CliInit ==
  /\ cliPc = "ask"
  /\ user_input = <<>>
  /\ command_history = <<>>
  /\ turns = 0
  /\ retry = 0
  /\ attempts = 0
  /\ failures = 0
  /\ timeouts = 0
  /\ lastTry = NoTry
  /\ sleeps = 0
  /\ call = "none"
  /\ callVal = <<>>
  /\ exc = NoExc
  /\ response = <<>>
  /\ cliOut = <<>>

GuiIdle ==
  /\ submitted = 0
  /\ workers = <<>>
  /\ events = <<>>
  /\ stack = <<>>

CliNext ==
  \/ CLI_ReadFails
  \/ CLI_Exit
  \/ CLI_Help
  \/ CLI_History
  \/ CLI_Local
  \/ CLI_Request
  \/ GGR_Submit
  \/ GGR_CallReturns
  \/ GGR_CallRaises
  \/ GGR_Result
  \/ GGR_Timeout
  \/ GGR_ShutdownJoined
  \/ GGR_Except
  \/ GGR_Sleep
  \/ CLI_Respond
  \/ LC_Write
  \/ LC_Report
  \/ LC_Except

CliSpecInit == SanIdle /\ RunnerInit /\ mode = "cli" /\ CliInit /\ GuiIdle

SpecCli == CliSpecInit /\ [][CliNext]_vars

\* The steps of the terminal shell that need no input: the main thread runs
\* whenever it is not blocked, a pending timeout fires, and a model call that
\* is not stuck ends.
CliFairness ==
  /\ WF_vars(GGR_Submit)
  /\ WF_vars(GGR_CallReturns \/ GGR_CallRaises)
  /\ WF_vars(GGR_Result)
  /\ WF_vars(GGR_Timeout)
  /\ WF_vars(GGR_ShutdownJoined)
  /\ WF_vars(GGR_Except)
  /\ WF_vars(GGR_Sleep)
  /\ WF_vars(CLI_Respond)
  /\ WF_vars(LC_Write)
  /\ WF_vars(LC_Report)
  /\ WF_vars(LC_Except)

SpecCliFair == CliSpecInit /\ [][CliNext]_vars /\ CliFairness

\* -------------------------------------------------------------- panel shell

\* self.max_retries of GeminiWorker
worker_max_retries == 3

\* What the user may enter in the panel's input line.
GuiInputs == { <<SP>>, <<"n", "e", "w", " ", "a">> }

NewWorker ==
  [pc |-> "run", retries |-> 0, attempts |-> 0, sleeps |-> 0,
   last_error |-> <<>>, lastTry |-> NoTry, emitted |-> <<>>, refused |-> FALSE,
   failed |-> FALSE]

\* A worker whose signal has been taken from the event queue: run has emitted
\* and ended, and nothing reads the worker's fields again.  Whether its reply
\* was a refusal, and whether all its attempts failed, is kept as history.
Retired(worker) ==
  [pc |-> "retired", retries |-> 0, attempts |-> 0, sleeps |-> 0,
   last_error |-> <<>>, lastTry |-> NoTry, emitted |-> <<>>,
   refused |-> worker.refused, failed |-> worker.failed]

Signal(sig, w, arg) == [sig |-> sig, w |-> w, arg |-> arg]

\* The message of the error signal, line 94.
worker_error_message(retries, last_error) ==
  <<"Connection error after ", NumStr(retries), " attempts: ">> \o last_error

\* A slip in line 87: only the first error is kept.
keep_first_error(old, e) == IF old = <<>> THEN e ELSE old

\* Line 87: last_error = str(e)
record_last_error(old, e) == e

\* GeminiWorker.run, lines 81-85, on its thread: the call returns, finished
\* is emitted with response.text, and run returns.
W_Success(w) ==
  /\ mode = "gui"
  /\ workers[w].pc = "run"
  /\ \E text \in ModelReplies :
       /\ workers' = [workers EXCEPT
            ![w].pc = "done",
            ![w].attempts = @ + 1,
            ![w].lastTry = [res |-> "ok", text |-> text],
            ![w].emitted = Append(@, Signal("finished", w, text)),
            ![w].refused = StartsWith(text, ErrorPrefix)]
       /\ events' = Append(events, Signal("finished", w, text))
  /\ UNCHANGED <<sanVars, diskVars, runVars, histVars, calls, mode, cliVars,
                 submitted, stack>>

\* A slip in lines 90-95: the else is lost and error is emitted after every
\* failed attempt.
W_Failure_emits_each_time(w) ==
  /\ mode = "gui"
  /\ workers[w].pc = "run"
  /\ \E e \in ModelErrors :
       LET last == record_last_error(workers[w].last_error, e)
           n == workers[w].retries + 1
           msg == worker_error_message(n, last)
       IN  IF n < worker_max_retries
             THEN /\ workers' = [workers EXCEPT
                       ![w].attempts = @ + 1,
                       ![w].retries = n,
                       ![w].sleeps = @ + 1,
                       ![w].last_error = last,
                       ![w].lastTry = [res |-> "error", text |-> e],
                       ![w].emitted = Append(@, Signal("error", w, msg))]
                  /\ events' = Append(events, Signal("error", w, msg))
             ELSE /\ workers' = [workers EXCEPT
                       ![w].pc = "done",
                       ![w].attempts = @ + 1,
                       ![w].retries = n,
                       ![w].last_error = last,
                       ![w].lastTry = [res |-> "error", text |-> e],
                       ![w].emitted = Append(@, Signal("error", w, msg)),
                       ![w].failed = TRUE]
                  /\ events' = Append(events, Signal("error", w, msg))
  /\ UNCHANGED <<sanVars, diskVars, runVars, histVars, calls, mode, cliVars,
                 submitted, stack>>

\* Lines 86-95: the call raises.  Before the last attempt the thread sleeps
\* for retry_delay (line 91) and goes round the loop; after the last attempt
\* error is emitted and the loop ends.
W_Failure(w) ==
  /\ mode = "gui"
  /\ workers[w].pc = "run"
  /\ \E e \in ModelErrors :
       LET last == record_last_error(workers[w].last_error, e)
           n == workers[w].retries + 1
           msg == worker_error_message(n, last)
       IN  IF n < worker_max_retries
             THEN /\ workers' = [workers EXCEPT
                       ![w].attempts = @ + 1,
                       ![w].retries = n,
                       ![w].sleeps = @ + 1,
                       ![w].last_error = last,
                       ![w].lastTry = [res |-> "error", text |-> e]]
                  /\ UNCHANGED events
             ELSE /\ workers' = [workers EXCEPT
                       ![w].pc = "done",
                       ![w].attempts = @ + 1,
                       ![w].retries = n,
                       ![w].last_error = last,
                       ![w].lastTry = [res |-> "error", text |-> e],
                       ![w].emitted = Append(@, Signal("error", w, msg)),
                       ![w].failed = TRUE]
                  /\ events' = Append(events, Signal("error", w, msg))
  /\ UNCHANGED <<sanVars, diskVars, runVars, histVars, calls, mode, cliVars,
                 submitted, stack>>

\* A handler running on the main thread: its position, the worker whose signal
\* it handles (0 for process_command), its argument, and the texts of the
\* message bubbles it has added with add_message.
Frame(h, pc, w, arg, shown) ==
  [h |-> h, pc |-> pc, w |-> w, arg |-> arg, shown |-> shown]

Top == stack[Len(stack)]

Pop == SubSeq(stack, 1, Len(stack) - 1)

\* A slip in the threading: signals are also handled while execute_commands
\* is running, as if it pumped the event loop.
CanDispatch_during_exec ==
  /\ mode = "gui"
  /\ IF stack = <<>> THEN TRUE
     ELSE stack[Len(stack)].pc \in {"pe_start", "pe_exec", "pe_final", "exec"}

\* The main thread takes the next event from the event loop, or from the
\* QApplication.processEvents() call of add_message (line 390) in the handler
\* that is running.
CanDispatch ==
  /\ mode = "gui"
  /\ IF stack = <<>> THEN TRUE ELSE Top.pc \in {"pe_start", "pe_exec", "pe_final"}

\* process_command, lines 397-399: a blank input returns at once.
PC_Blank ==
  /\ CanDispatch
  /\ \E inp \in GuiInputs : Strip(inp) = <<>>
  /\ UNCHANGED vars

\* process_command, lines 397-402, up to processEvents in add_message.
PC_Begin ==
  /\ CanDispatch
  /\ submitted < MaxRequests
  /\ \E inp \in GuiInputs :
       /\ Strip(inp) # <<>>
       /\ stack' = Append(stack,
            Frame("process_command", "pe_start", 0, Strip(inp), <<Strip(inp)>>))
  /\ submitted' = submitted + 1
  /\ UNCHANGED <<sanVars, diskVars, runVars, histVars, calls, mode, cliVars,
                 workers, events>>

\* process_command, lines 404-418: the worker is created and started.
PC_StartWorker ==
  /\ mode = "gui"
  /\ stack # <<>>
  /\ Top.h = "process_command"
  /\ workers' = Append(workers, NewWorker)
  /\ stack' = Pop
  /\ UNCHANGED <<sanVars, diskVars, runVars, histVars, calls, mode, cliVars,
                 submitted, events>>

\* A slip in lines 421-423: the refusal test is left out.
is_refusal_never(reply) == FALSE

\* Line 421: response.startswith("ERROR:")
is_refusal(reply) == StartsWith(reply, ErrorPrefix)

ExecutingText == <<"E", "x", "e", "c", "u", "t", "i", "n", "g", " ",
                   "c", "o", "m", "m", "a", "n", "d", "s", ":", LF>>

\* handle_gemini_response, lines 421-429, up to processEvents in add_message.
HR_Begin ==
  /\ CanDispatch
  /\ events # <<>>
  /\ Head(events).sig = "finished"
  /\ events' = Tail(events)
  /\ LET reply == Head(events).arg
         w == Head(events).w
     IN  IF is_refusal(reply)
           THEN stack' = Append(stack,
                  Frame("handle_gemini_response", "pe_final", w, reply,
                        <<Slice(reply, 6)>>))
           ELSE stack' = Append(stack,
                  Frame("handle_gemini_response", "pe_exec", w, reply,
                        <<ExecutingText \o clean_gemini_response(reply)>>))
  /\ workers' = [workers EXCEPT ![Head(events).w] = Retired(@)]
  /\ UNCHANGED <<sanVars, diskVars, runVars, histVars, calls, mode, cliVars,
                 submitted>>

\* Line 433: self.execute_commands(cleaned_response.split('\n'))
HR_Execute ==
  /\ mode = "gui"
  /\ stack # <<>>
  /\ Top.pc = "pe_exec"
  /\ execute_commands_call(Split(clean_gemini_response(Top.arg), LF), Top.w)
  /\ stack' = [stack EXCEPT ![Len(stack)].pc = "exec"]
  /\ UNCHANGED <<sanVars, diskVars, histVars, calls, mode, cliVars,
                 submitted, workers, events>>

\* Lines 434-436, up to processEvents in add_message.  execute_commands has
\* returned or raised and its locals are gone.
HR_AfterExecute ==
  /\ mode = "gui"
  /\ stack # <<>>
  /\ Top.pc = "exec"
  /\ runPc \in {"ec_returned", "ec_raised"}
  /\ stack' = [stack EXCEPT
       ![Len(stack)].pc = "pe_final",
       ![Len(stack)].shown = Append(@,
          IF runPc = "ec_returned"
            THEN <<"Commands executed successfully!">>
            ELSE <<"Error executing commands: ">> \o runExc)]
  /\ runPc' = "idle"
  /\ runContent' = <<>>
  /\ runStderr' = <<>>
  /\ runCode' = 0
  /\ runExc' = <<>>
  /\ runReq' = 0
  /\ lastScript' = <<>>
  /\ UNCHANGED <<sanVars, diskVars, wroteFor, startedFor, calls, mode, cliVars,
                 submitted, workers, events>>

\* A slip in line 439: the error handler goes on to run the text it was given.
HE_Begin_executes ==
  /\ CanDispatch
  /\ events # <<>>
  /\ Head(events).sig = "error"
  /\ events' = Tail(events)
  /\ stack' = Append(stack,
       Frame("handle_gemini_error", "pe_exec", Head(events).w, Head(events).arg,
             <<<<"Error: ">> \o Head(events).arg>>))
  /\ workers' = [workers EXCEPT ![Head(events).w] = Retired(@)]
  /\ UNCHANGED <<sanVars, diskVars, runVars, histVars, calls, mode, cliVars,
                 submitted>>

\* handle_gemini_error, line 439, up to processEvents in add_message.
HE_Begin ==
  /\ CanDispatch
  /\ events # <<>>
  /\ Head(events).sig = "error"
  /\ events' = Tail(events)
  /\ stack' = Append(stack,
       Frame("handle_gemini_error", "pe_final", Head(events).w, Head(events).arg,
             <<<<"Error: ">> \o Head(events).arg>>))
  /\ workers' = [workers EXCEPT ![Head(events).w] = Retired(@)]
  /\ UNCHANGED <<sanVars, diskVars, runVars, histVars, calls, mode, cliVars,
                 submitted>>

\* add_message returns (lines 391-394) and so does the handler of the signal.
H_Return ==
  /\ mode = "gui"
  /\ stack # <<>>
  /\ Top.pc = "pe_final"
  /\ stack' = Pop
  /\ UNCHANGED <<sanVars, diskVars, runVars, histVars, calls, mode, cliVars,
                 submitted, workers, events>>

\* execute_commands runs in the handler on top of the main thread's stack.
InExecuteCommands == mode = "gui" /\ stack # <<>> /\ Top.pc = "exec"

GuiNext ==
  \/ PC_Blank
  \/ PC_Begin
  \/ PC_StartWorker
  \/ \E w \in 1..Len(workers) : W_Success(w)
  \/ \E w \in 1..Len(workers) : W_Failure(w)
  \/ HR_Begin
  \/ HR_Execute
  \/ InExecuteCommands /\ EC_Write
  \/ InExecuteCommands /\ EC_Popen
  \/ InExecuteCommands /\ EC_Communicate
  \/ InExecuteCommands /\ EC_Cleanup
  \/ InExecuteCommands /\ EC_Except
  \/ HR_AfterExecute
  \/ HE_Begin
  \/ H_Return

\* main(), lines 781-791: "--gui" starts the panel shell, anything else the
\* terminal shell.
Init ==
  /\ SanIdle
  /\ RunnerInit
  /\ mode \in {"cli", "gui"}
  /\ IF mode = "cli" THEN CliInit ELSE CliIdle
  /\ GuiIdle

Next == CliNext \/ GuiNext

Spec == Init /\ [][Next]_vars

\* The panel shell alone.
GuiSpecInit == SanIdle /\ RunnerInit /\ mode = "gui" /\ CliIdle /\ GuiIdle

\* One turn of the loop of GeminiWorker.run (lines 80-95) in worker w.
WorkerStep(w) == w <= Len(workers) /\ (W_Success(w) \/ W_Failure(w))

\* A started worker thread keeps running, and each of its model calls returns
\* or raises.
WorkerFairness == \A w \in 1..MaxRequests : WF_vars(WorkerStep(w))

\* The worker threads on their own: requests are submitted and their workers
\* run, while the signals they emit wait in the event queue.
WorkerNext ==
  \/ PC_Blank
  \/ PC_Begin
  \/ PC_StartWorker
  \/ \E w \in 1..Len(workers) : W_Success(w)
  \/ \E w \in 1..Len(workers) : W_Failure(w)

SpecWorkerFair == GuiSpecInit /\ [][WorkerNext]_vars /\ WorkerFairness

\* ------------------------------------------------ the sanitizer on its own

\* The lines raw texts are made of.
SanLines ==
  { <<>>, <<SP>>, <<"c">>, <<SP, "c">>, Fence, Fence \o <<"c">>,
    <<SP>> \o Fence, ErrorPrefix \o <<"c">> }

RECURSIVE SeqsUpTo(_, _)
SeqsUpTo(S, n) ==
  IF n = 0 THEN {<<>>}
  ELSE LET shorter == SeqsUpTo(S, n - 1)
       IN  shorter \cup { Append(q, x) : q \in shorter, x \in S }

RawTexts == { Join(ls, <<LF>>) : ls \in SeqsUpTo(SanLines, MaxLines) \ {<<>>} }

SanInit ==
  /\ raw \in RawTexts
  /\ cleaned = <<>>
  /\ recleaned = <<>>
  /\ sanPc = "input"
  /\ RunnerInit
  /\ mode = "unit"
  /\ CliIdle
  /\ GuiIdle

SanClean ==
  /\ sanPc = "input"
  /\ cleaned' = clean_gemini_response(raw)
  /\ sanPc' = "cleaned"
  /\ UNCHANGED <<raw, recleaned, diskVars, runVars, histVars, calls, mode, cliVars, guiVars>>

SanReclean ==
  /\ sanPc = "cleaned"
  /\ recleaned' = clean_gemini_response(cleaned)
  /\ sanPc' = "recleaned"
  /\ UNCHANGED <<raw, cleaned, diskVars, runVars, histVars, calls, mode, cliVars, guiVars>>

SanNext == SanClean \/ SanReclean

SpecSanitizer == SanInit /\ [][SanNext]_vars

\* ------------------------------------------- the Script Runner on its own

RunnerHarnessInit == SanIdle /\ RunnerInit /\ mode = "unit" /\ CliIdle /\ GuiIdle

\* The panel shell's call, line 433.
CallExecuteCommands ==
  /\ RunnerAtRest
  /\ calls < MaxCalls
  /\ calls' = calls + 1
  /\ \E reply \in ScriptReplies : execute_commands_call(CommandsOf(reply), calls + 1)
  /\ UNCHANGED <<sanVars, diskVars, histVars, mode, cliVars, guiVars>>

\* The terminal shell's calls, lines 711-712: execute_batch_file is called
\* when create_batch_file has returned.
CallCreateBatchFile ==
  /\ RunnerAtRest
  /\ calls < MaxCalls
  /\ calls' = calls + 1
  /\ \E reply \in ScriptReplies : create_batch_file_call(CommandsOf(reply), calls + 1)
  /\ UNCHANGED <<sanVars, diskVars, histVars, mode, cliVars, guiVars>>

CallExecuteBatchFile ==
  /\ runPc = "cb_returned"
  /\ execute_batch_file_call
  /\ UNCHANGED <<sanVars, diskVars, histVars, calls, mode, cliVars, guiVars>>

RunnerHarnessNext ==
  \/ CallExecuteCommands
  \/ EC_Write
  \/ EC_Popen
  \/ EC_Communicate
  \/ EC_Cleanup
  \/ EC_Except
  \/ CallCreateBatchFile
  \/ CB_Write
  \/ CallExecuteBatchFile
  \/ EB_Popen
  \/ EB_Communicate
  \/ EB_Cleanup
  \/ EB_Except

SpecRunner == RunnerHarnessInit /\ [][RunnerHarnessNext]_vars

\* ------------------------------------------------------------------ claims

\* A raw text that is one fenced block: an opening fence line, one or more
\* lines that are not fence markers, a closing fence line.
FencedBlock(t) ==
  LET ls == Split(t, LF)
  IN  /\ Len(ls) >= 3
      /\ StartsWith(ls[1], Fence)
      /\ ls[Len(ls)] = Fence
      /\ \A i \in 2..(Len(ls) - 1) : ~StartsWith(Strip(ls[i]), Fence)

InnerLines(t) == LET ls == Split(t, LF) IN SubSeq(ls, 2, Len(ls) - 1)

\* C9: for a raw text that is one fenced block (the opening fence line may
\* carry a language tag), clean_gemini_response returns exactly the inner
\* lines joined by a newline.
C9_FencedBlockGivesInnerLines ==
  (sanPc # "input" /\ FencedBlock(raw))
    => cleaned = Join(InnerLines(raw), <<LF>>)

\* C9 witness: a tagged fenced block with two inner lines has been cleaned.
C9_Witness ==
  /\ sanPc = "cleaned"
  /\ raw = Join(<<Fence \o <<"c">>, <<"c">>, <<SP, "c">>, Fence>>, <<LF>>)
  /\ cleaned = <<"c", LF, SP, "c">>

\* C10 as stated: cleaning a cleaned text changes nothing, for every raw text.
C10_Idempotent == sanPc = "recleaned" => recleaned = cleaned

\* A text the sanitizer has nothing to remove from: no leading or trailing
\* whitespace and, with two or more lines, no first line starting with the
\* fence and no last line that trims to the fence.
AlreadyClean(t) ==
  LET ls == Split(t, LF)
  IN  /\ Strip(t) = t
      /\ Len(ls) >= 2 =>
           /\ ~StartsWith(ls[1], Fence)
           /\ Strip(ls[Len(ls)]) # Fence

\* C10 amended: cleaning a cleaned text changes nothing whenever the cleaned
\* text is already clean.
C10_IdempotentOnClean ==
  (sanPc = "recleaned" /\ AlreadyClean(cleaned)) => recleaned = cleaned

\* C10 witness: a fenced raw text was cleaned to an already clean text of two
\* lines and cleaned again.
C10_Witness ==
  /\ sanPc = "recleaned"
  /\ AlreadyClean(cleaned)
  /\ cleaned # raw
  /\ Len(Split(cleaned, LF)) >= 2

\* C1: once execute_commands, or execute_batch_file called after
\* create_batch_file, has returned or raised, temp_commands.bat does not
\* exist: with empty stderr, with stderr output, and when starting the
\* interpreter throws.
C1_TempFileGoneAfterRun ==
  runPc \in {"ec_returned", "ec_raised", "eb_returned", "eb_raised"}
    => ~fileExists

\* C1 witness: the script of a request was written and run, the interpreter
\* wrote to standard error, and execute_batch_file has raised.
C1_Witness ==
  /\ runPc = "eb_raised"
  /\ runStderr # <<>>
  /\ runReq \in wroteFor
  /\ runReq \in startedFor
  /\ lastScript = TranslateNewlines(runContent)

\* s.endswith(p)
EndsWith(s, p) == Len(s) >= Len(p) /\ SubSeq(s, Len(s) - Len(p) + 1, Len(s)) = p

\* The failure messages the terminal shell printed in this turn.
CliErrorsPrinted ==
  { i \in 1..Len(cliOut) : cliOut[i].k \in {"error", "timeout_error", "outer_error"} }

\* C2: when every model call fails, the Model Client makes exactly three
\* attempts, never more, and then reports one failure whose message names the
\* count 3 and ends with the description of the last attempt's error.
C2_ExactlyMaxRetriesAttempts ==
  /\ attempts <= 3
  /\ (mode = "cli" /\ cliPc = "ask" /\ attempts > 0 /\ failures = attempts) =>
       /\ attempts = 3
       /\ Cardinality(CliErrorsPrinted) = 1
       /\ \A i \in CliErrorsPrinted :
            /\ StartsWith(cliOut[i].text,
                 <<"Error: ", "Failed to get response after ", "3", " attempts: ">>)
            /\ EndsWith(cliOut[i].text, lastTry.text)
  /\ \A w \in 1..Len(workers) :
       /\ workers[w].attempts <= 3
       /\ (workers[w].pc = "done" /\ workers[w].lastTry.res = "error") =>
            /\ workers[w].attempts = 3
            /\ workers[w].emitted =
                 <<Signal("error", w,
                     <<"Connection error after ", "3", " attempts: ">>
                       \o workers[w].lastTry.text)>>

\* C2 witness: a terminal turn ended after three failed attempts, one of them
\* a timeout, the last one an error raised by the call.
C2_Witness ==
  /\ mode = "cli"
  /\ cliPc = "ask"
  /\ attempts = 3
  /\ failures = 3
  /\ timeouts = 1
  /\ lastTry = [res |-> "error", text |-> <<"429 RESOURCE_EXHAUSTED">>]

\* The handlers of the finished signal that are running on a refusal.
RefusalFrames ==
  { i \in 1..Len(stack) :
      stack[i].h = "handle_gemini_response" /\ StartsWith(stack[i].arg, ErrorPrefix) }

\* C3: in both shells a reply that begins with ERROR: never reaches the Script
\* Runner (no script file is written and no interpreter started for that
\* request) and is displayed with the ERROR: prefix removed.
C3_RefusalStopsPipeline ==
  /\ (mode = "cli" /\ cliPc = "ask" /\ lastTry.res = "ok"
        /\ StartsWith(response, ErrorPrefix)) =>
       /\ turns \notin wroteFor
       /\ turns \notin startedFor
       /\ \E i \in 1..Len(cliOut) :
            cliOut[i] = Printed("error", <<"Error: ">> \o Slice(response, 6))
  /\ \A w \in 1..Len(workers) :
       workers[w].refused => (w \notin wroteFor /\ w \notin startedFor)
  /\ \A i \in RefusalFrames :
       /\ stack[i].pc = "pe_final"
       /\ stack[i].shown = <<Slice(stack[i].arg, 6)>>

\* C3 witness: the panel shell has run the script of one request and is
\* returning from the handler of the other request's refusal.
C3_Witness ==
  /\ mode = "gui"
  /\ Len(workers) = 2
  /\ workers[1].refused
  /\ 2 \in startedFor
  /\ Len(stack) = 1
  /\ stack[1].w = 1
  /\ stack[1].arg = RefusalText
  /\ stack[1].shown = <<<<" ", "n", "o">>>>
  /\ runPc = "idle"

\* The script the local: bypass composes for the input of this turn.
LocalScript == EchoOff \o CRLF \o Strip(Slice(user_input, 6))

\* C4: an input beginning with local: never invokes the Model Client and is
\* routed to the Script Runner: once its script is on disk, the command
\* interpreter is run on it.
C4_LocalBypassRunsScript ==
  (mode = "cli" /\ cliPc = "ask" /\ turns > 0 /\ IsLocal(user_input)
     /\ fileExists /\ fileContent = TranslateNewlines(LocalScript)) =>
    /\ attempts = 0
    /\ turns \in startedFor
    /\ lastScript = TranslateNewlines(LocalScript)

\* C5: after execute_local_command has returned or an exception has left it,
\* temp_commands.bat does not exist.
C5_LocalBypassRemovesFile ==
  (mode = "cli" /\ cliPc = "ask" /\ turns > 0 /\ IsLocal(user_input)) => ~fileExists

\* C6: when the first model call succeeds the reply is delivered unchanged
\* after exactly one attempt, with no retry and no retry delay.
C6_FirstSuccessUnchanged ==
  /\ (mode = "cli" /\ cliPc = "respond" /\ failures = 0) =>
       /\ attempts = 1
       /\ retry = 0
       /\ sleeps = 0
       /\ lastTry.res = "ok"
       /\ response = callVal
  /\ \A w \in 1..Len(workers) :
       (workers[w].pc = "done" /\ workers[w].retries = 0) =>
         /\ workers[w].attempts = 1
         /\ workers[w].sleeps = 0
         /\ workers[w].emitted = <<Signal("finished", w, workers[w].lastTry.text)>>

\* C6 witness: get_gemini_response has returned a fenced reply, blank lines and
\* all, from its first attempt.
C6_Witness ==
  /\ mode = "cli"
  /\ cliPc = "respond"
  /\ attempts = 1
  /\ sleeps = 0
  /\ response = FencedReply

\* C7: every attempt of get_gemini_response ends: also when the model call
\* never completes, the attempt ends as a timeout failure once the timeout
\* has fired.
C7_EveryAttemptEnds == (cliPc = "await") ~> (cliPc \in {"respond", "failed"})

\* C8: when every attempt ended in a timeout, the failure that reaches run is
\* handled by its TimeoutError branch ("Timeout Error:"), not by the generic
\* branch.
C8_TimeoutKindReachesShell ==
  (mode = "cli" /\ cliPc = "ask" /\ attempts = 3 /\ timeouts = 3) =>
    /\ \E i \in 1..Len(cliOut) : cliOut[i].k = "timeout_error"
    /\ \A i \in 1..Len(cliOut) : cliOut[i].k # "error"

\* The text holds the code-fence marker nowhere.
NoFenceMarker(t) == \A i \in 1..(Len(t) - 2) : SubSeq(t, i, i + 2) # Fence

\* C11 as stated: a raw text without a code-fence marker is returned
\* unchanged, leading and trailing blank lines and whitespace included.
C11_NoFenceUnchanged ==
  (sanPc # "input" /\ NoFenceMarker(raw)) => cleaned = raw

\* C11 amended: a raw text without a code-fence marker is returned with its
\* leading and trailing whitespace removed and nothing else changed.
C11_NoFenceGivesStripped ==
  (sanPc # "input" /\ NoFenceMarker(raw)) => cleaned = Strip(raw)

\* C11 witness: a text without fences, with a blank before its first command,
\* a blank line inside and a newline at its end, has been cleaned.
C11_Witness ==
  /\ sanPc = "cleaned"
  /\ raw = <<SP, "c", LF, LF, "c", LF>>
  /\ cleaned = <<"c", LF, LF, "c">>

\* The text holds two carriage returns in a row nowhere.
NoDoubledCR(t) == \A i \in 1..(Len(t) - 1) : ~(t[i] = CR /\ t[i + 1] = CR)

\* C12: the script file the Script Runner has written holds exactly
\* '@echo off', one CR LF pair, then the trimmed non-blank command lines in
\* order with one CR LF pair between them (the batch_content the runner
\* composed), and no doubled carriage return.
C12_ScriptFileContent ==
  (runPc \in {"ec_popen", "cb_returned"} /\ fileExists) =>
    /\ fileContent = runContent
    /\ NoDoubledCR(fileContent)

\* The panel-shell requests in flight: the worker has been started and the
\* handler of its signal has not yet returned.
GuiInFlight ==
  { w \in 1..Len(workers) : workers[w].pc \in {"run", "done"} }
    \cup { stack[i].w : i \in { j \in 1..Len(stack) : stack[j].h # "process_command" } }

\* C13: at every moment at most one request is between its acceptance (its
\* Model Client call started) and its final result or failure message: the
\* terminal shell reads an input only when no model call is running, and the
\* panel shell has at most one request in flight.
C13_OneRequestInFlight ==
  /\ (mode = "cli" /\ cliPc \in {"ask", "exited"}) => call \notin {"running", "hung"}
  /\ mode = "gui" => Cardinality(GuiInFlight) <= 1

\* C14: in the terminal shell a reply that does not begin with ERROR: is
\* sanitized, previewed and then run: once the turn is over the preview has
\* been printed and the script was written and handed to the interpreter.
C14_CliPreviewsThenRuns ==
  (mode = "cli" /\ cliPc = "ask" /\ lastTry.res = "ok"
     /\ ~StartsWith(response, ErrorPrefix)) =>
    /\ \E i \in 1..Len(cliOut) : cliOut[i].k = "preview"
    /\ turns \in wroteFor
    /\ turns \in startedFor

\* C15: an empty or whitespace-only input is a no-op: in the terminal shell
\* no model call is made for it and it is not added to the command history.
C15_BlankInputIsNoOp ==
  /\ (mode = "cli" /\ turns > 0 /\ user_input = <<>>) =>
       /\ cliPc = "ask"
       /\ attempts = 0
  /\ \A i \in 1..Len(command_history) : command_history[i] # <<>>

\* C16: no exception raised during a turn of the terminal shell leaves run:
\* run ends only on the input exit, and when the loop is back at reading
\* input after a turn in which an exception was raised, a failure was printed.
C16_NoExceptionEscapesRun ==
  /\ cliPc = "exited" => (IsExit(user_input) /\ exc = NoExc)
  /\ (mode = "cli" /\ cliPc = "ask" /\ exc.type # "none") => CliErrorsPrinted # {}

\* C16 witness: the turn of a local: input ended with the AttributeError of
\* execute_local_command's handler reported by run, which reads input again.
C16_Witness ==
  /\ mode = "cli"
  /\ cliPc = "ask"
  /\ turns = 1
  /\ IsLocal(user_input)
  /\ exc = AttributeError("output_area")
  /\ \E i \in 1..Len(cliOut) : cliOut[i].k = "outer_error"

\* C17 as stated: every turn of the terminal shell that printed a failure
\* ends with the local-fallback offer.
C17_EveryFailureOffersFallback ==
  (mode = "cli" /\ cliPc = "ask" /\ CliErrorsPrinted # {}) =>
    cliOut[Len(cliOut)] = offer_fallback

\* C17 amended: a turn whose input went to the model and failed (refusal,
\* exhausted retries, or an exception after the reply) ends with one error
\* message followed by the fallback offer; a turn whose exception is handled
\* by the outer try of run (a local: command, a failed read) ends with one
\* error message and no fallback offer.
C17_FallbackAfterModelFailures ==
  (mode = "cli" /\ cliPc = "ask" /\ turns > 0) =>
    /\ lastTry.res # "none" =>
         /\ Len(cliOut) >= 2
         /\ cliOut[Len(cliOut) - 1].k \in {"error", "timeout_error"}
         /\ cliOut[Len(cliOut)] = offer_fallback
         /\ Cardinality(CliErrorsPrinted) = 1
    /\ (lastTry.res = "none" /\ exc.type # "none") =>
         /\ cliOut = run_outer_except(exc)
         /\ \A i \in 1..Len(cliOut) : cliOut[i] # offer_fallback

\* C17 witness: a turn in which all three model calls timed out has ended with
\* two retry notices, the error message and the fallback offer.
C17_Witness ==
  /\ mode = "cli"
  /\ cliPc = "ask"
  /\ timeouts = 3
  /\ Len(cliOut) = 4
  /\ cliOut[3].k = "error"
  /\ cliOut[4] = offer_fallback

\* An input the terminal shell does not forward to the model.
IsReserved(u) == IsExit(u) \/ IsHelp(u) \/ IsHistory(u) \/ IsLocal(u)

\* C18: command_history is the ordered list of the inputs forwarded to the
\* model: a step that enters get_gemini_response for a new input appends that
\* input, no other step changes the history, and no entry is exit, help,
\* history or a local: command.
C18_HistoryIsForwardedInputs ==
  /\ [](\A i \in 1..Len(command_history) : ~IsReserved(command_history[i]))
  /\ [][IF cliPc = "ask" /\ cliPc' = "submit"
          THEN command_history' = Append(command_history, user_input')
          ELSE command_history' = command_history]_vars

\* C18 witness: two inputs were forwarded, the same one twice; both pipelines
\* failed and both inputs are in the history, in order.
C18_Witness ==
  /\ mode = "cli"
  /\ cliPc = "ask"
  /\ turns = 2
  /\ failures = 3
  /\ command_history = <<<<"l", "s">>, <<"l", "s">>>>

\* C19: the Script Runner fails, carrying the captured text, exactly when the
\* interpreter wrote to standard error or the file or process operation
\* threw; with empty standard error it succeeds whatever the exit code.
C19_FailureIffStderr ==
  /\ runPc \in {"ec_returned", "eb_returned"} =>
       (runStderr = <<>> /\ runReq \in startedFor)
  /\ (runPc = "ec_raised" /\ runReq \in startedFor) =>
       (runStderr # <<>> /\ runExc = runStderr)
  /\ (runPc = "eb_raised" /\ runReq \in startedFor) =>
       (runStderr # <<>> /\ runExc = <<"Error executing batch file: ">> \o runStderr)
  /\ (runPc \in {"ec_raised", "eb_raised"} /\ runReq \notin startedFor) =>
       (runStderr = <<>> /\ runExc # <<>>)

\* C19 witness: execute_commands has returned normally from a run that wrote
\* nothing to standard error and ended with exit code 1.
C19_Witness ==
  /\ runPc = "ec_returned"
  /\ runStderr = <<>>
  /\ runCode = 1

\* The handlers that are inside execute_commands.
ExecFrames == { i \in 1..Len(stack) : stack[i].pc = "exec" }

\* C20: in the panel shell temp_commands.bat belongs to one execute_commands
\* invocation at a time: at most one invocation exists, it is the innermost
\* handler on the main thread, and the file exists only between that
\* invocation's write and its own removal of the file.
C20_ExclusiveOwnership ==
  mode = "gui" =>
    /\ Cardinality(ExecFrames) <= 1
    /\ runPc # "idle" =>
         (stack # <<>> /\ Top.pc = "exec" /\ Top.w = runReq)
    /\ fileExists => runPc \in {"ec_popen", "ec_communicate", "ec_cleanup", "ec_except"}

\* C20 witness: two requests overlap.  The handler of the first reply is in
\* add_message before its execute_commands call; nested in it, the handler of
\* the second reply is inside execute_commands with the file on disk.
C20_Witness ==
  /\ mode = "gui"
  /\ Len(stack) = 2
  /\ stack[1].pc = "pe_exec"
  /\ stack[1].w = 1
  /\ stack[2].pc = "exec"
  /\ stack[2].w = 2
  /\ runReq = 2
  /\ fileExists

\* C21: the Model Client sleeps for the retry delay once after each failed
\* attempt that another attempt follows: no delay before the first attempt,
\* k delays when k failures are followed by a success, two delays when all
\* three attempts fail.
C21_OneDelayPerRetry ==
  /\ mode = "cli" =>
       /\ cliPc \in {"submit", "await", "shutdown"} => sleeps = retry
       /\ cliPc = "submit" => (sleeps = failures /\ attempts = failures)
       /\ cliPc = "respond" => (sleeps = failures /\ failures < cli_max_retries)
       /\ (cliPc = "ask" /\ failures = cli_max_retries) => sleeps = cli_max_retries - 1
  /\ \A w \in 1..Len(workers) :
       /\ workers[w].pc = "run" =>
            (workers[w].sleeps = workers[w].attempts /\ workers[w].attempts < worker_max_retries)
       /\ (workers[w].pc = "done" /\ workers[w].lastTry.res = "ok") =>
            (workers[w].sleeps = workers[w].retries /\ workers[w].retries < worker_max_retries)
       /\ (workers[w].pc = "done" /\ workers[w].lastTry.res = "error") =>
            (workers[w].retries = worker_max_retries
               /\ workers[w].sleeps = worker_max_retries - 1)

\* C21 witness: in the terminal shell two failed attempts, each followed by a
\* delay, were followed by a successful third attempt.
C21_Witness ==
  /\ mode = "cli"
  /\ cliPc = "respond"
  /\ attempts = 3
  /\ failures = 2
  /\ sleeps = 2

\* C22: for a request that goes through the model the Script Runner is
\* invoked only after the Model Client has delivered a successful reply for
\* that request and the sanitizer has produced its script, and never for a
\* request whose model calls all failed.
C22_RunnerOnlyAfterReply ==
  /\ (mode = "cli" /\ cliPc \notin {"ask", "exited"} /\ ~IsLocal(user_input)) =>
       (turns \notin wroteFor /\ turns \notin startedFor)
  /\ (mode = "cli" /\ attempts > 0) =>
       (turns \notin wroteFor /\ turns \notin startedFor)
  /\ \A w \in 1..Len(workers) :
       (workers[w].failed \/ workers[w].pc \in {"run", "done"}) =>
         (w \notin wroteFor /\ w \notin startedFor)
  /\ (mode = "gui" /\ runPc # "idle") =>
       /\ stack # <<>>
       /\ Top.h = "handle_gemini_response"
       /\ Top.w = runReq
       /\ Top.arg \in ModelReplies
       /\ runContent = BatchContent(Split(clean_gemini_response(Top.arg), LF))

\* C22 witness: in the panel shell the first request failed after three
\* attempts and nothing was run for it; the second request's reply arrived,
\* was sanitized, and its script has been started.
C22_Witness ==
  /\ mode = "gui"
  /\ Len(workers) = 2
  /\ workers[1].failed
  /\ workers[1].pc = "retired"
  /\ runReq = 2
  /\ runPc = "ec_communicate"
  /\ startedFor = {2}
  /\ Top.arg = FencedReply

\* The signals of worker w that are waiting in the event queue.
QueuedSignals(w) == {i \in 1..Len(events) : events[i].w = w}

\* C23: every run of GeminiWorker.run whose model calls each return or
\* raise terminates, and on termination it has emitted exactly one signal:
\* finished with the reply text if an attempt succeeded, error otherwise.
\* It emits nothing while it is still trying, and nothing after its signal.
C23_ExactlyOneSignal ==
  /\ [](\A w \in 1..Len(workers) :
         /\ workers[w].pc = "run" =>
              /\ workers[w].emitted = <<>>
              /\ QueuedSignals(w) = {}
              /\ workers[w].attempts < worker_max_retries
         /\ workers[w].pc = "done" =>
              /\ Len(workers[w].emitted) = 1
              /\ Cardinality(QueuedSignals(w)) = 1
              /\ \A i \in QueuedSignals(w) : events[i] = workers[w].emitted[1]
              /\ workers[w].lastTry.res = "ok" =>
                   workers[w].emitted[1] = Signal("finished", w, workers[w].lastTry.text)
              /\ workers[w].lastTry.res = "error" =>
                   /\ workers[w].retries = worker_max_retries
                   /\ workers[w].emitted[1] =
                        Signal("error", w,
                               worker_error_message(worker_max_retries, workers[w].last_error))
         /\ workers[w].pc \in {"run", "done"})
  /\ [][\A w \in 1..Len(workers) :
         /\ workers[w].pc = "run" =>
              \/ workers'[w] = workers[w]
              \/ /\ workers'[w].pc \in {"run", "done"}
                 /\ workers'[w].attempts = workers[w].attempts + 1
         /\ workers[w].pc = "done" =>
              /\ workers'[w] = workers[w]
              /\ \A i \in 1..Len(events') : events'[i].w = w => i \in QueuedSignals(w)]_vars
  /\ \A w \in 1..MaxRequests :
       (Len(workers) >= w /\ workers[w].pc = "run")
         ~> (Len(workers) >= w /\ workers[w].pc # "run")

\* C23 witness: one worker ended with finished after two failed attempts,
\* another ended with error after three, and both signals are still queued.
C23_Witness ==
  /\ mode = "gui"
  /\ Len(workers) = 2
  /\ workers[1].pc = "done"
  /\ workers[1].lastTry.res = "ok"
  /\ workers[1].attempts = 3
  /\ workers[1].emitted = <<Signal("finished", 1, PlainReply)>>
  /\ workers[2].pc = "done"
  /\ workers[2].lastTry.res = "error"
  /\ Len(workers[2].emitted) = 1
  /\ Len(events) = 2

\* The lines of the text that handle_gemini_response hands to
\* execute_commands for the reply it is handling.
HandedToRunner == Split(clean_gemini_response(Top.arg), LF)

\* C24: in the panel shell no line beginning with ERROR: is ever handed to
\* the Script Runner; a refusal wrapped in a code fence is still treated as a
\* refusal and execute_commands is not called for it.
C24_NoErrorLineIsRun ==
  (mode = "gui" /\ runPc # "idle" /\ stack # <<>>) =>
    \A i \in 1..Len(HandedToRunner) : ~StartsWith(HandedToRunner[i], ErrorPrefix)

====
